---- MODULE Spec2Model ----
(***************************************************************************)
(* A model of the polychrome terminal text-styling library (src/color.rs): *)
(* the StyledText builder and its Display rendering, the gradient and      *)
(* polychrome effects, utils::supports_color and ProgressBar::render.      *)
(*                                                                         *)
(* A string is a sequence of characters.  A character is a TLA+ string     *)
(* naming one Unicode scalar value: an ASCII character names itself, "ESC" *)
(* is U+001B and "U+00E9", "U+2588", "U+2591" are the non-ASCII characters *)
(* of that code point.  Utf8Len gives the number of bytes of a character.  *)
(***************************************************************************)
EXTENDS Integers, Sequences, FiniteSets, TLC

VARIABLES
    self,       \* Option<StyledText>: <<>> once the value was moved or dropped
    res,        \* outcome of the last builder call: "Ok", "Err" or "Panic"
    err,        \* the Err(String) message of the last call, <<>> if none
    out,        \* the String written by Display::fmt for this StyledText
    last,       \* the last operation called and its argument
    ncalls,     \* setter calls chained since StyledText::new
    calls,      \* the chain of setter calls since StyledText::new (SpecChain)
    grad,       \* one run of StyledText::gradient
    poly,       \* one run of StyledText::polychrome
    bar,        \* Option<ProgressBar>
    bar_out,    \* the String of the last ProgressBar::render, and its argument
    env,        \* the process environment: variable name -> value
    supports    \* the last result of utils::supports_color

vars == <<self, res, err, out, last, ncalls, calls, grad, poly, bar, bar_out,
          env, supports>>


(***************************************************************************)
(* Bounds of the model.                                                    *)
(***************************************************************************)
MaxCalls == 3
MaxChain == 3
MaxGradLen == 6
MaxPolyLen == 8
MaxWidth == 4

(***************************************************************************)
(* Strings and formatting.                                                 *)
(***************************************************************************)
None == <<>>
Some(x) == <<x>>

Range(s) == {s[k] : k \in DOMAIN s}

RECURSIVE Concat(_)
Concat(ss) == IF ss = <<>> THEN <<>> ELSE Head(ss) \o Concat(Tail(ss))

RECURSIVE Repeat(_, _)
Repeat(s, n) == IF n = 0 THEN <<>> ELSE s \o Repeat(s, n - 1)

DigitChar == <<"0", "1", "2", "3", "4", "5", "6", "7", "8", "9">>

\* format!("{}", n) of an unsigned integer: decimal, no leading zeros.
RECURSIVE FormatUInt(_)
FormatUInt(n) ==
    IF n < 10 THEN <<DigitChar[n + 1]>>
    ELSE FormatUInt(n \div 10) \o <<DigitChar[(n % 10) + 1]>>

\* Bytes of the UTF-8 encoding of a character.
Utf8Len(c) ==
    IF c = "U+00E9" THEN 2
    ELSE IF c \in {"U+2588", "U+2591"} THEN 3
    ELSE 1

\* str::len: the length in bytes.
RECURSIVE ByteLen(_)
ByteLen(s) == IF s = <<>> THEN 0 ELSE Utf8Len(Head(s)) + ByteLen(Tail(s))

\* str::is_char_boundary.
IsCharBoundary(s, n) == \E k \in 0..Len(s) : ByteLen(SubSeq(s, 1, k)) = n

\* &s[a..b]: the characters between two byte offsets; the slice panics when
\* an offset is not on a character boundary.
ByteSlice(s, a, b) ==
    IF IsCharBoundary(s, a) /\ IsCharBoundary(s, b) /\ a <= b
    THEN LET ka == CHOOSE k \in 0..Len(s) : ByteLen(SubSeq(s, 1, k)) = a
             kb == CHOOSE k \in 0..Len(s) : ByteLen(SubSeq(s, 1, k)) = b
         IN  [panic |-> FALSE, str |-> SubSeq(s, ka + 1, kb)]
    ELSE [panic |-> TRUE, str |-> <<>>]

\* str::trim_start_matches('#'): every leading '#' is removed.
RECURSIVE TrimStartMatches(_, _)
TrimStartMatches(s, c) ==
    IF s # <<>> /\ Head(s) = c THEN TrimStartMatches(Tail(s), c) ELSE s

\* char::to_digit(16); -1 stands for None.
ToDigit16(c) ==
    CASE c = "0" -> 0 [] c = "1" -> 1 [] c = "2" -> 2 [] c = "3" -> 3
      [] c = "4" -> 4 [] c = "5" -> 5 [] c = "6" -> 6 [] c = "7" -> 7
      [] c = "8" -> 8 [] c = "9" -> 9
      [] c \in {"a", "A"} -> 10 [] c \in {"b", "B"} -> 11
      [] c \in {"c", "C"} -> 12 [] c \in {"d", "D"} -> 13
      [] c \in {"e", "E"} -> 14 [] c \in {"f", "F"} -> 15
      [] OTHER -> -1

RECURSIVE DigitsValue(_, _)
DigitsValue(s, acc) ==
    IF s = <<>> THEN acc ELSE DigitsValue(Tail(s), acc * 16 + ToDigit16(Head(s)))

\* u8::from_str_radix(src, 16): an empty string, a lone sign, a '-' or any
\* character that is no hex digit is an error; one leading '+' is accepted.
FromStrRadix16(src) ==
    LET digits == IF Len(src) > 1 /\ Head(src) = "+" THEN Tail(src) ELSE src
        good == /\ src # <<>>
                /\ \A k \in DOMAIN digits : ToDigit16(digits[k]) >= 0
                /\ DigitsValue(digits, 0) <= 255
    IN  IF good THEN [ok |-> TRUE, v |-> DigitsValue(digits, 0)]
        ELSE [ok |-> FALSE, v |-> 0]

ESC == "ESC"
ResetCode == <<ESC, "[", "0", "m">>

\* format!("\x1b[38;2;{};{};{}m", r, g, b)
FgCode(c) ==
    <<ESC, "[", "3", "8", ";", "2", ";">> \o FormatUInt(c[1]) \o <<";">>
        \o FormatUInt(c[2]) \o <<";">> \o FormatUInt(c[3]) \o <<"m">>

\* format!("\x1b[48;2;{};{};{}m", r, g, b)
BgCode(c) ==
    <<ESC, "[", "4", "8", ";", "2", ";">> \o FormatUInt(c[1]) \o <<";">>
        \o FormatUInt(c[2]) \o <<";">> \o FormatUInt(c[3]) \o <<"m">>

(***************************************************************************)
(* StyledText.                                                             *)
(***************************************************************************)
TextStyle == {"Bold", "Dim", "Italic", "Blink", "Reverse", "Hidden", "Reset"}

UnderlineStyle ==
    {"Normal", "Strikethrough", "Double", "Curly", "Dotted", "Dashed", "None"}

\* StyledText::new
new(text) ==
    [text |-> text, foreground |-> None, background |-> None,
     underline |-> "None", styles |-> <<>>]

Ok(st) == [tag |-> "Ok", val |-> Some(st), msg |-> <<>>]
Err(msg) == [tag |-> "Err", val |-> None, msg |-> msg]
Panic == [tag |-> "Panic", val |-> None, msg |-> <<>>]

MsgLength == <<"Hex color must be 6 characters long">>
MsgInvalid == <<"Invalid hex color">>

\* Mutant of color: a foreground already set is kept.
color_first_wins(st, r, g, b) ==
    IF st.foreground = None
    THEN [st EXCEPT !.foreground = Some(<<r, g, b>>)]
    ELSE st

\* StyledText::color
color(st, r, g, b) == [st EXCEPT !.foreground = Some(<<r, g, b>>)]

\* StyledText::bg_color
bg_color(st, r, g, b) == [st EXCEPT !.background = Some(<<r, g, b>>)]

\* The body shared by hex_color and bg_hex_color: the parse of the string
\* into Ok((r, g, b)), Err(message) or a panic of the slice.
ParseHex(hexIn) ==
    LET hex == TrimStartMatches(hexIn, "#")
    IN  IF ByteLen(hex) # 6 THEN Err(MsgLength)
        ELSE
        LET s1 == ByteSlice(hex, 0, 2)
            r == FromStrRadix16(s1.str)
            s2 == ByteSlice(hex, 2, 4)
            g == FromStrRadix16(s2.str)
            s3 == ByteSlice(hex, 4, 6)
            b == FromStrRadix16(s3.str)
        IN  IF s1.panic THEN Panic
            ELSE IF ~r.ok THEN Err(MsgInvalid)
            ELSE IF s2.panic THEN Panic
            ELSE IF ~g.ok THEN Err(MsgInvalid)
            ELSE IF s3.panic THEN Panic
            ELSE IF ~b.ok THEN Err(MsgInvalid)
            ELSE Ok(<<r.v, g.v, b.v>>)

\* StyledText::hex_color
hex_color(st, hex) ==
    LET p == ParseHex(hex)
    IN  IF p.tag = "Ok"
        THEN Ok([st EXCEPT !.foreground = Some(p.val[1])])
        ELSE p

\* StyledText::bg_hex_color
bg_hex_color(st, hex) ==
    LET p == ParseHex(hex)
    IN  IF p.tag = "Ok"
        THEN Ok([st EXCEPT !.background = Some(p.val[1])])
        ELSE p

\* StyledText::underline
underline(st, u) == [st EXCEPT !.underline = u]

\* Mutant of style: the attribute is pushed without the contains check.
style_no_dedup(st, s) == [st EXCEPT !.styles = Append(@, s)]

\* StyledText::style
style(st, s) ==
    IF s \notin Range(st.styles)
    THEN [st EXCEPT !.styles = Append(@, s)]
    ELSE st

bold(st) == style(st, "Bold")
italic(st) == style(st, "Italic")
dim(st) == style(st, "Dim")
blink(st) == style(st, "Blink")
reverse(st) == style(st, "Reverse")
hidden(st) == style(st, "Hidden")

StyleCode(s) ==
    CASE s = "Bold" -> <<ESC, "[", "1", "m">>
      [] s = "Dim" -> <<ESC, "[", "2", "m">>
      [] s = "Italic" -> <<ESC, "[", "3", "m">>
      [] s = "Blink" -> <<ESC, "[", "5", "m">>
      [] s = "Reverse" -> <<ESC, "[", "7", "m">>
      [] s = "Hidden" -> <<ESC, "[", "8", "m">>
      [] s = "Reset" -> <<ESC, "[", "0", "m">>

UnderlineCode(u) ==
    CASE u = "Normal" -> <<ESC, "[", "4", "m">>
      [] u = "Strikethrough" -> <<ESC, "[", "9", "m">>
      [] u = "Double" -> <<ESC, "[", "2", "1", "m">>
      [] u = "Curly" -> <<ESC, "[", "4", ":", "3", "m">>
      [] u = "Dotted" -> <<ESC, "[", "4", ":", "4", "m">>
      [] u = "Dashed" -> <<ESC, "[", "4", ":", "5", "m">>
      [] u = "None" -> <<>>

\* Mutant of fmt: the underline code is pushed before the attribute codes.
fmt_underline_first(st) ==
    LET c1 == IF st.foreground # None THEN <<FgCode(st.foreground[1])>> ELSE <<>>
        c2 == IF st.background # None
              THEN Append(c1, BgCode(st.background[1])) ELSE c1
        underline_code == UnderlineCode(st.underline)
        c3 == IF underline_code # <<>> THEN Append(c2, underline_code) ELSE c2
        codes == c3 \o [k \in DOMAIN st.styles |-> StyleCode(st.styles[k])]
    IN  Concat(codes) \o st.text \o ResetCode

\* impl Display for StyledText: the vector of codes, joined, then the text
\* and the reset code.
fmt(st) ==
    LET c1 == IF st.foreground # None THEN <<FgCode(st.foreground[1])>> ELSE <<>>
        c2 == IF st.background # None
              THEN Append(c1, BgCode(st.background[1])) ELSE c1
        c3 == c2 \o [k \in DOMAIN st.styles |-> StyleCode(st.styles[k])]
        underline_code == UnderlineCode(st.underline)
        codes == IF underline_code # <<>> THEN Append(c3, underline_code) ELSE c3
    IN  Concat(codes) \o st.text \o ResetCode

(***************************************************************************)
(* Inputs of the builder.                                                  *)
(***************************************************************************)
Texts == { <<>>, <<"H", "i">> }

Colors == { <<255, 0, 0>>, <<0, 0, 139>> }

HexInputs ==
    { <<"#", "F", "F", "0", "0", "0", "0">>,
      <<"0", "0", "f", "f", "7", "F">>,
      <<"G", "G", "0", "0", "0", "0">>,
      <<"#", "F", "F">>,
      <<"#", "#", "0", "0", "0", "0", "8", "b">>,
      <<"+", "F", "0", "0", "0", "0">>,
      <<"U+00E9", "a", "b", "1", "2">>,
      <<"a", "U+00E9", "b", "c", "d">>,
      <<"0", "0", "0", "0", "0", "0", "0">> }

NoOp == [op |-> "none", arg |-> <<>>]

(***************************************************************************)
(* The builder as a state machine: a chain of calls on one StyledText.     *)
(***************************************************************************)
BuilderInit ==
    /\ self = None
    /\ res = "Ok"
    /\ err = <<>>
    /\ out = None
    /\ last = NoOp
    /\ ncalls = 0
    /\ calls = <<>>

EffectIdle ==
    /\ grad = [pc |-> "idle", text |-> <<>>, start_color |-> <<0, 0, 0>>,
               end_color |-> <<0, 0, 0>>, i |-> 0, rgb |-> None, result |-> <<>>]
    /\ poly = [pc |-> "idle", text |-> <<>>, i |-> 0, color_index |-> None,
               result |-> <<>>]

BarIdle ==
    /\ bar = None
    /\ bar_out = None

EnvIdle ==
    /\ env = [name \in {"NO_COLOR", "FORCE_COLOR", "TERM"} |-> None]
    /\ supports = None

Init == BuilderInit /\ EffectIdle /\ BarIdle /\ EnvIdle

OutsideBuilder == UNCHANGED <<grad, poly, bar, bar_out, env, supports>>

Call(op, arg) == [op |-> op, arg |-> arg]

\* A total setter returned the new value.
Returned(st, op, arg) ==
    /\ self' = Some(st)
    /\ res' = "Ok"
    /\ err' = <<>>
    /\ last' = [op |-> op, arg |-> arg]
    /\ ncalls' = ncalls + 1
    /\ UNCHANGED <<out, calls>>
    /\ OutsideBuilder

\* A fallible setter returned Ok(self) or Err(message), or panicked; self
\* was moved into the call and is dropped unless Ok gives it back.
ReturnedResult(r, op, arg) ==
    /\ self' = r.val
    /\ res' = r.tag
    /\ err' = r.msg
    /\ last' = [op |-> op, arg |-> arg]
    /\ ncalls' = ncalls + 1
    /\ UNCHANGED <<out, calls>>
    /\ OutsideBuilder

CanCall == self # None /\ ncalls < MaxCalls

New ==
    \E t \in Texts :
        /\ self' = Some(new(t))
        /\ res' = "Ok"
        /\ err' = <<>>
        /\ last' = [op |-> "new", arg |-> t]
        /\ ncalls' = 0
        /\ out' = None
        /\ UNCHANGED calls
        /\ OutsideBuilder

Color ==
    /\ CanCall
    /\ \E c \in Colors : Returned(color(self[1], c[1], c[2], c[3]), "color", c)

HexColor ==
    /\ CanCall
    /\ \E h \in HexInputs : ReturnedResult(hex_color(self[1], h), "hex_color", h)

BgColor ==
    /\ CanCall
    /\ \E c \in Colors :
           Returned(bg_color(self[1], c[1], c[2], c[3]), "bg_color", c)

BgHexColor ==
    /\ CanCall
    /\ \E h \in HexInputs :
           ReturnedResult(bg_hex_color(self[1], h), "bg_hex_color", h)

Underline ==
    /\ CanCall
    /\ \E u \in UnderlineStyle : Returned(underline(self[1], u), "underline", u)

Style ==
    /\ CanCall
    /\ \E s \in TextStyle : Returned(style(self[1], s), "style", s)

Bold == CanCall /\ Returned(bold(self[1]), "bold", "Bold")
Italic == CanCall /\ Returned(italic(self[1]), "italic", "Italic")
Dim == CanCall /\ Returned(dim(self[1]), "dim", "Dim")
Blink == CanCall /\ Returned(blink(self[1]), "blink", "Blink")
Reverse == CanCall /\ Returned(reverse(self[1]), "reverse", "Reverse")
Hidden == CanCall /\ Returned(hidden(self[1]), "hidden", "Hidden")

\* format!("{}", styled): Display::fmt borrows the value and writes the string.
Display ==
    /\ self # None
    /\ out' = Some(fmt(self[1]))
    /\ last' = [op |-> "fmt", arg |-> <<>>]
    /\ UNCHANGED <<self, res, err, ncalls, calls>>
    /\ OutsideBuilder

Next ==
    \/ New \/ Color \/ HexColor \/ BgColor \/ BgHexColor \/ Underline \/ Style
    \/ Bold \/ Italic \/ Dim \/ Blink \/ Reverse \/ Hidden \/ Display

Spec == Init /\ [][Next]_vars

(***************************************************************************)
(* f32 arithmetic, as far as gradient uses it.  A finite f32 is a record   *)
(* [neg, m, e] of value (-1)^neg * m * 2^e with m < 2^24; every operation  *)
(* rounds its exact result to 24 significant bits, ties to even.           *)
(***************************************************************************)
RECURSIVE Pow2(_)
Pow2(n) == IF n = 0 THEN 1 ELSE 2 * Pow2(n - 1)

RECURSIVE BitLen(_)
BitLen(x) == IF x = 0 THEN 0 ELSE 1 + BitLen(x \div 2)

Abs(x) == IF x < 0 THEN -x ELSE x

F32Mantissa == Pow2(24)

\* x / 2^s rounded to an integer, ties to even.
RoundShift(x, s) ==
    IF s = 0 THEN x
    ELSE LET q == x \div Pow2(s)
             r == x % Pow2(s)
             half == Pow2(s - 1)
         IN  IF r > half \/ (r = half /\ q % 2 = 1) THEN q + 1 ELSE q

\* A rounded mantissa that reached 2^24 moves to the next exponent.
F32Make(neg, m, e) ==
    IF m = F32Mantissa THEN [neg |-> neg, m |-> m \div 2, e |-> e + 1]
    ELSE [neg |-> neg, m |-> m, e |-> e]

\* `n as f32` of an integer of at most 24 bits: exact.
F32FromInt(n) == [neg |-> n < 0, m |-> Abs(n), e |-> 0]

\* a / b of two f32 holding the integers a >= 0 and 1 <= b < 128.
F32DivInt(a, b) ==
    IF a = 0 THEN F32FromInt(0)
    ELSE LET k0 == 24 + BitLen(b) - BitLen(a)
             k == IF (a * Pow2(k0)) \div b >= F32Mantissa THEN k0 - 1 ELSE k0
             q == (a * Pow2(k)) \div b
             r == (a * Pow2(k)) % b
             up == 2 * r > b \/ (2 * r = b /\ q % 2 = 1)
         IN  F32Make(FALSE, IF up THEN q + 1 ELSE q, -k)

\* d * x of the f32 holding the integer d, |d| < 2^8, and the f32 x >= 0.
\* The 32-bit product d * x.m is kept in two halves, X * 2^12 + Y.
F32MulInt(d, x) ==
    LET a == Abs(d)
        hi == a * (x.m \div 4096)
        lo == a * (x.m % 4096)
        X == hi + lo \div 4096
        Y == lo % 4096
        s == BitLen(X) - 12
    IN  IF X < 4096 THEN [neg |-> d < 0, m |-> X * 4096 + Y, e |-> x.e]
        ELSE LET q == X * Pow2(12 - s) + Y \div Pow2(s)
                 r == Y % Pow2(s)
                 half == Pow2(s - 1)
                 up == r > half \/ (r = half /\ q % 2 = 1)
             IN  F32Make(d < 0, IF up THEN q + 1 ELSE q, x.e + s)

\* The magnitude int + g / 2^f (g < 2^f) rounded to an f32.
F32Round(neg, int, g, f) ==
    IF int > 0
    THEN LET fb == 24 - BitLen(int)
         IN  IF f <= fb THEN [neg |-> neg, m |-> int * Pow2(f) + g, e |-> -f]
             ELSE F32Make(neg, int * Pow2(fb) + RoundShift(g, f - fb), -fb)
    ELSE IF BitLen(g) <= 24 THEN [neg |-> neg, m |-> g, e |-> -f]
    ELSE F32Make(neg, RoundShift(g, BitLen(g) - 24), BitLen(g) - 24 - f)

\* a + x of the f32 holding the integer 0 <= a < 2^8 and the f32 x, |x| < 2^9.
F32AddInt(a, x) ==
    IF x.m = 0 THEN F32FromInt(a)
    ELSE IF x.e >= 0
    THEN F32FromInt(IF x.neg THEN a - x.m * Pow2(x.e) ELSE a + x.m * Pow2(x.e))
    ELSE LET f == -x.e
             qi == x.m \div Pow2(f)
             qf == x.m % Pow2(f)
         IN  IF ~x.neg THEN F32Round(FALSE, a + qi, qf, f)
             ELSE IF qi >= a THEN F32Round(TRUE, qi - a, qf, f)
             ELSE IF qf = 0 THEN F32Round(FALSE, a - qi, 0, f)
             ELSE F32Round(FALSE, a - qi - 1, Pow2(f) - qf, f)

\* `x as u8`: truncation toward zero, saturating at 0 and 255.
F32AsU8(x) ==
    IF x.m = 0 \/ x.neg THEN 0
    ELSE LET t == IF x.e >= 0 THEN x.m * Pow2(x.e)
                  ELSE IF -x.e > 30 THEN 0 ELSE x.m \div Pow2(-x.e)
         IN  IF t > 255 THEN 255 ELSE t

\* One channel of gradient: (start + (end - start) * ratio) as u8.
GradientChannel(start, end, ratio) ==
    F32AsU8(F32AddInt(start, F32MulInt(end - start, ratio)))

\* Mutant of GradientRatio: the index is divided by len, not len - 1.
GradientRatioByLen(i, len) == F32DivInt(i, len)

\* i as f32 / (len - 1.0).max(1.0)
GradientRatio(i, len) == F32DivInt(i, IF len - 1 > 1 THEN len - 1 ELSE 1)

(***************************************************************************)
(* A chain of setter calls with its history, for the claims about the      *)
(* order of the calls.                                                     *)
(***************************************************************************)
ChainCalls ==
    { Call("color", <<255, 0, 0>>), Call("color", <<0, 0, 139>>),
      Call("hex_color", <<"#", "F", "F", "0", "0", "0", "0">>),
      Call("hex_color", <<"G", "G", "0", "0", "0", "0">>),
      Call("bg_color", <<255, 0, 0>>),
      Call("bg_hex_color", <<"0", "0", "f", "f", "7", "F">>),
      Call("underline", "Normal"), Call("underline", "Double"),
      Call("style", "Bold"), Call("style", "Reset"),
      Call("bold", <<>>), Call("italic", <<>>), Call("dim", <<>>) }

\* One call of the chain: the setter named by c applied to st.
Apply(st, c) ==
    CASE c.op = "color" -> Ok(color(st, c.arg[1], c.arg[2], c.arg[3]))
      [] c.op = "hex_color" -> hex_color(st, c.arg)
      [] c.op = "bg_color" -> Ok(bg_color(st, c.arg[1], c.arg[2], c.arg[3]))
      [] c.op = "bg_hex_color" -> bg_hex_color(st, c.arg)
      [] c.op = "underline" -> Ok(underline(st, c.arg))
      [] c.op = "style" -> Ok(style(st, c.arg))
      [] c.op = "bold" -> Ok(bold(st))
      [] c.op = "italic" -> Ok(italic(st))
      [] c.op = "dim" -> Ok(dim(st))
      [] c.op = "blink" -> Ok(blink(st))
      [] c.op = "reverse" -> Ok(reverse(st))
      [] c.op = "hidden" -> Ok(hidden(st))

\* The chain cs applied to st, stopping at the first Err or panic.
RECURSIVE Replay(_, _)
Replay(st, cs) ==
    IF cs = <<>> THEN Ok(st)
    ELSE LET r == Apply(st, Head(cs))
         IN  IF r.tag = "Ok" THEN Replay(r.val[1], Tail(cs)) ELSE r

ChainNew ==
    \E t \in Texts :
        /\ self' = Some(new(t))
        /\ res' = "Ok"
        /\ err' = <<>>
        /\ last' = Call("new", t)
        /\ ncalls' = 0
        /\ calls' = <<>>
        /\ out' = None
        /\ OutsideBuilder

ChainCall ==
    /\ self # None
    /\ Len(calls) < MaxChain
    /\ \E c \in ChainCalls :
        LET r == Apply(self[1], c)
        IN  /\ self' = r.val
            /\ res' = r.tag
            /\ err' = r.msg
            /\ last' = c
            /\ ncalls' = ncalls + 1
            /\ calls' = Append(calls, c)
            /\ UNCHANGED out
            /\ OutsideBuilder

ChainNext == ChainNew \/ ChainCall

SpecChain == Init /\ [][ChainNext]_vars

(***************************************************************************)
(* StyledText::gradient, one loop iteration per step.                      *)
(***************************************************************************)
EffectChars == {"A", "U+00E9"}

TextsUpTo(n) == UNION {[1..k -> EffectChars] : k \in 0..n}

GradColors == { <<0, 0, 0>>, <<255, 255, 255>>, <<210, 0, 84>>, <<255, 165, 0>> }

OutsideGradient ==
    UNCHANGED <<self, res, err, out, ncalls, calls, poly, bar, bar_out, env,
                supports>>

\* The call: the empty text returns at once, any other enters the loop.
GradientCall ==
    /\ grad.pc = "idle"
    /\ \E text \in TextsUpTo(MaxGradLen), start_color, end_color \in GradColors :
        /\ grad' = [pc |-> IF text = <<>> THEN "done" ELSE "loop",
                    text |-> text, start_color |-> start_color,
                    end_color |-> end_color, i |-> 0, rgb |-> None,
                    result |-> <<>>]
        /\ last' = Call("gradient", <<text, start_color, end_color>>)
    /\ OutsideGradient

\* One iteration of `for (i, ch) in text.chars().enumerate()`.
GradientStep ==
    /\ grad.pc = "loop"
    /\ grad.i < Len(grad.text)
    /\ LET len == Len(grad.text)
           ch == grad.text[grad.i + 1]
           ratio == GradientRatio(grad.i, len)
           r == GradientChannel(grad.start_color[1], grad.end_color[1], ratio)
           g == GradientChannel(grad.start_color[2], grad.end_color[2], ratio)
           b == GradientChannel(grad.start_color[3], grad.end_color[3], ratio)
       IN  grad' = [grad EXCEPT !.i = @ + 1,
                                !.rgb = Some(<<r, g, b>>),
                                !.result = @ \o FgCode(<<r, g, b>>) \o <<ch>>]
    /\ UNCHANGED last
    /\ OutsideGradient

\* The end of the loop: the reset code is pushed and the string returned.
GradientReturn ==
    /\ grad.pc = "loop"
    /\ grad.i = Len(grad.text)
    /\ grad' = [grad EXCEPT !.pc = "done", !.result = @ \o ResetCode]
    /\ UNCHANGED last
    /\ OutsideGradient

GradientNext == GradientCall \/ GradientStep \/ GradientReturn

SpecGradient == Init /\ [][GradientNext]_vars

(***************************************************************************)
(* StyledText::polychrome, one loop iteration per step.                    *)
(***************************************************************************)
rainbow_colors ==
    << <<255, 0, 0>>, <<255, 165, 0>>, <<255, 255, 0>>, <<0, 255, 0>>,
       <<0, 0, 255>>, <<75, 0, 130>>, <<238, 130, 238>> >>

\* Mutant of PolyColorIndex: the index of the next character.
PolyColorIndexNext(i, len) == ((i + 1) * Len(rainbow_colors)) \div len

\* (i * rainbow_colors.len()) / len
PolyColorIndex(i, len) == (i * Len(rainbow_colors)) \div len

Min(a, b) == IF a < b THEN a ELSE b

OutsidePolychrome ==
    UNCHANGED <<self, res, err, out, ncalls, calls, grad, bar, bar_out, env,
                supports>>

PolychromeCall ==
    /\ poly.pc = "idle"
    /\ \E text \in TextsUpTo(MaxPolyLen) :
        /\ poly' = [pc |-> IF text = <<>> THEN "done" ELSE "loop",
                    text |-> text, i |-> 0, color_index |-> None,
                    result |-> <<>>]
        /\ last' = Call("polychrome", text)
    /\ OutsidePolychrome

PolychromeStep ==
    /\ poly.pc = "loop"
    /\ poly.i < Len(poly.text)
    /\ LET len == Len(poly.text)
           ch == poly.text[poly.i + 1]
           color_index == PolyColorIndex(poly.i, len)
           c == rainbow_colors[Min(color_index, Len(rainbow_colors) - 1) + 1]
       IN  poly' = [poly EXCEPT !.i = @ + 1,
                                !.color_index = Some(color_index),
                                !.result = @ \o FgCode(c) \o <<ch>>]
    /\ UNCHANGED last
    /\ OutsidePolychrome

PolychromeReturn ==
    /\ poly.pc = "loop"
    /\ poly.i = Len(poly.text)
    /\ poly' = [poly EXCEPT !.pc = "done", !.result = @ \o ResetCode]
    /\ UNCHANGED last
    /\ OutsidePolychrome

PolychromeNext == PolychromeCall \/ PolychromeStep \/ PolychromeReturn

SpecPolychrome == Init /\ [][PolychromeNext]_vars

(***************************************************************************)
(* ProgressBar.  A progress value is an f64: NaN, an infinity, or the      *)
(* number num / den with den a power of two, which an f64 holds exactly,   *)
(* as it does the product of such a number with a small width.             *)
(***************************************************************************)
Num(n, d) == [kind |-> "num", num |-> n, den |-> d]
NaN == [kind |-> "nan", num |-> 0, den |-> 1]
PosInf == [kind |-> "inf", num |-> 1, den |-> 1]
NegInf == [kind |-> "inf", num |-> -1, den |-> 1]

\* f64::clamp(0.0, 1.0): NaN stays NaN.
Clamp01(x) ==
    IF x.kind = "nan" THEN x
    ELSE IF x.num < 0 THEN Num(0, 1)
    ELSE IF x.kind = "inf" \/ x.num > x.den THEN Num(1, 1)
    ELSE x

\* Mutant of FilledWidth: the product is rounded to the nearest integer.
FilledWidthRounded(width, progress) ==
    IF progress.kind = "nan" THEN 0
    ELSE (2 * width * progress.num + progress.den) \div (2 * progress.den)

\* (self.width as f64 * progress) as usize, of a clamped progress: the cast
\* truncates, and takes NaN to 0.
FilledWidth(width, progress) ==
    IF progress.kind = "nan" THEN 0
    ELSE (width * progress.num) \div progress.den

\* ProgressBar::new
bar_new(width) ==
    [width |-> width, filled_char |-> "U+2588", empty_char |-> "U+2591",
     color |-> None]

\* ProgressBar::chars
bar_chars(b, filled, empty) ==
    [b EXCEPT !.filled_char = filled, !.empty_char = empty]

\* ProgressBar::color
bar_color(b, r, g, c) == [b EXCEPT !.color = Some(<<r, g, c>>)]

\* ProgressBar::render
render(b, progressIn) ==
    LET progress == Clamp01(progressIn)
        filled_width == FilledWidth(b.width, progress)
        empty_width == b.width - filled_width
        str == Repeat(<<b.filled_char>>, filled_width)
                   \o Repeat(<<b.empty_char>>, empty_width)
    IN  IF b.color # None THEN FgCode(b.color[1]) \o str \o ResetCode ELSE str

ProgressInputs ==
    {Num(n, d) : n \in -3..9, d \in {1, 2, 8}} \cup {NaN, PosInf, NegInf}

BarGlyphs == { <<"#", "-">>, <<"=", "=">> }

OutsideBar ==
    UNCHANGED <<self, res, err, out, ncalls, calls, grad, poly, env, supports>>

BarNew ==
    /\ \E width \in 0..MaxWidth : bar' = Some(bar_new(width))
    /\ bar_out' = None
    /\ last' = Call("ProgressBar::new", <<>>)
    /\ OutsideBar

BarChars ==
    /\ bar # None
    /\ \E gl \in BarGlyphs :
        /\ bar' = Some(bar_chars(bar[1], gl[1], gl[2]))
        /\ last' = Call("chars", gl)
    /\ UNCHANGED bar_out
    /\ OutsideBar

BarColor ==
    /\ bar # None
    /\ \E c \in Colors :
        /\ bar' = Some(bar_color(bar[1], c[1], c[2], c[3]))
        /\ last' = Call("color", c)
    /\ UNCHANGED bar_out
    /\ OutsideBar

BarRender ==
    /\ bar # None
    /\ \E progress \in ProgressInputs :
        /\ bar_out' = Some(render(bar[1], progress))
        /\ last' = Call("render", progress)
    /\ UNCHANGED bar
    /\ OutsideBar

BarNext == BarNew \/ BarChars \/ BarColor \/ BarRender

SpecProgress == Init /\ [][BarNext]_vars

(***************************************************************************)
(* utils::supports_color and the environment it reads.  The value of a     *)
(* variable is an OsString: valid Unicode, or not.                         *)
(***************************************************************************)
EnvNames == {"NO_COLOR", "FORCE_COLOR", "TERM"}

Unicode(str) == [unicode |-> TRUE, str |-> str]
NotUnicode == [unicode |-> FALSE, str |-> <<"0xFF">>]

EnvValues ==
    { Unicode(<<>>), Unicode(<<"1">>), Unicode(<<"d", "u", "m", "b">>),
      Unicode(<<"x", "t", "e", "r", "m">>), NotUnicode }

\* std::env::var: Err(NotPresent) for a variable that is not set and
\* Err(NotUnicode) for a value that is not valid Unicode.
env_var(e, name) ==
    IF e[name] = None THEN [ok |-> FALSE, str |-> <<>>]
    ELSE IF ~e[name][1].unicode THEN [ok |-> FALSE, str |-> <<>>]
    ELSE [ok |-> TRUE, str |-> e[name][1].str]

\* utils::supports_color
supports_color(e) ==
    /\ ~env_var(e, "NO_COLOR").ok
    /\ \/ env_var(e, "FORCE_COLOR").ok
       \/ LET term == env_var(e, "TERM")
          IN  term.ok /\ term.str # <<>> /\ term.str # <<"d", "u", "m", "b">>

OutsideEnv ==
    UNCHANGED <<self, res, err, out, ncalls, calls, grad, poly, bar, bar_out>>

\* The environment the process is started in, or std::env::set_var.
SetVar ==
    /\ \E name \in EnvNames, v \in EnvValues :
        /\ env' = [env EXCEPT ![name] = Some(v)]
        /\ last' = Call("set_var", <<name, v>>)
    /\ UNCHANGED supports
    /\ OutsideEnv

RemoveVar ==
    /\ \E name \in EnvNames :
        /\ env[name] # None
        /\ env' = [env EXCEPT ![name] = None]
        /\ last' = Call("remove_var", name)
    /\ UNCHANGED supports
    /\ OutsideEnv

SupportsColor ==
    /\ supports' = Some(supports_color(env))
    /\ last' = Call("supports_color", <<>>)
    /\ UNCHANGED env
    /\ OutsideEnv

EnvNext == SetVar \/ RemoveVar \/ SupportsColor

SpecEnv == Init /\ [][EnvNext]_vars

(***************************************************************************)
(* Claims about the builder and the renderer.                              *)
(***************************************************************************)
C1_Decimal(n) ==
    IF n < 10 THEN <<DigitChar[n + 1]>>
    ELSE IF n < 100 THEN <<DigitChar[(n \div 10) + 1], DigitChar[(n % 10) + 1]>>
    ELSE <<DigitChar[(n \div 100) + 1], DigitChar[((n \div 10) % 10) + 1],
           DigitChar[(n % 10) + 1]>>

C1_Rgb(c) ==
    C1_Decimal(c[1]) \o <<";">> \o C1_Decimal(c[2]) \o <<";">> \o C1_Decimal(c[3])

C1_AttrParam(a) ==
    CASE a = "Bold" -> <<"1">> [] a = "Dim" -> <<"2">> [] a = "Italic" -> <<"3">>
      [] a = "Blink" -> <<"5">> [] a = "Reverse" -> <<"7">>
      [] a = "Hidden" -> <<"8">> [] a = "Reset" -> <<"0">>

C1_UnderlineParam(u) ==
    CASE u = "Normal" -> <<"4">> [] u = "Strikethrough" -> <<"9">>
      [] u = "Double" -> <<"2", "1">> [] u = "Curly" -> <<"4", ":", "3">>
      [] u = "Dotted" -> <<"4", ":", "4">> [] u = "Dashed" -> <<"4", ":", "5">>

C1_Csi(params) == <<"ESC", "[">> \o params \o <<"m">>

RECURSIVE C1_AttrCodes(_)
C1_AttrCodes(attrs) ==
    IF attrs = <<>> THEN <<>>
    ELSE C1_Csi(C1_AttrParam(Head(attrs))) \o C1_AttrCodes(Tail(attrs))

C1_Expected(st) ==
    (IF st.foreground = None THEN <<>>
     ELSE C1_Csi(<<"3", "8", ";", "2", ";">> \o C1_Rgb(st.foreground[1])))
    \o (IF st.background = None THEN <<>>
        ELSE C1_Csi(<<"4", "8", ";", "2", ";">> \o C1_Rgb(st.background[1])))
    \o C1_AttrCodes(st.styles)
    \o (IF st.underline = "None" THEN <<>>
        ELSE C1_Csi(C1_UnderlineParam(st.underline)))
    \o st.text
    \o <<"ESC", "[", "0", "m">>

C2_Requested(cs) ==
    LET attrOf(c) == CASE c.op = "style" -> c.arg
                       [] c.op = "bold" -> "Bold"
                       [] c.op = "italic" -> "Italic"
                       [] c.op = "dim" -> "Dim"
                       [] c.op = "blink" -> "Blink"
                       [] c.op = "reverse" -> "Reverse"
                       [] c.op = "hidden" -> "Hidden"
        idx == {k \in DOMAIN cs :
                   cs[k].op \in {"style", "bold", "italic", "dim", "blink",
                                 "reverse", "hidden"}}
        RECURSIVE pick(_)
        pick(k) == IF k > Len(cs) THEN <<>>
                   ELSE IF k \in idx THEN <<attrOf(cs[k])>> \o pick(k + 1)
                   ELSE pick(k + 1)
    IN  pick(1)

\* A sequence with every value kept at its first occurrence only.
RECURSIVE C2_FirstOccurrences(_, _)
C2_FirstOccurrences(s, seen) ==
    IF s = <<>> THEN <<>>
    ELSE IF Head(s) \in seen THEN C2_FirstOccurrences(Tail(s), seen)
    ELSE <<Head(s)>> \o C2_FirstOccurrences(Tail(s), seen \cup {Head(s)})

\* C2: after any chain of style calls and their wrappers, interleaved with
\* other setters, the attribute list holds no value twice and lists the
\* attributes in the order of their first insertion; re-adding an attribute
\* leaves the list, and so the rendered attribute codes, as they were.
C2_AttributesDeduplicated ==
    self # None =>
        /\ \A j, k \in DOMAIN self[1].styles :
               self[1].styles[j] = self[1].styles[k] => j = k
        /\ self[1].styles = C2_FirstOccurrences(C2_Requested(calls), {})

C2_Witness ==
    /\ self # None
    /\ Len(C2_Requested(calls)) = 3
    /\ Len(self[1].styles) = 2
    /\ C2_Requested(calls)[1] = C2_Requested(calls)[3]

C3_Permuted(p) == [k \in DOMAIN calls |-> calls[p[k]]]

\* The last call of a chain that sets the field, if any.
C3_LastSetter(cs, ops) ==
    LET idx == {k \in DOMAIN cs : cs[k].op \in ops}
    IN  IF idx = {} THEN None
        ELSE Some(cs[CHOOSE k \in idx : \A j \in idx : j <= k])

C3_FgOps == {"color", "hex_color"}
C3_BgOps == {"bg_color", "bg_hex_color"}
C3_UlOps == {"underline"}

\* C3 as claimed: two chains of setter calls that are permutations of each
\* other end with the same foreground, background, underline and set of
\* attributes.
C3_OrderIndependent ==
    self # None =>
        \A p \in Permutations(DOMAIN calls) :
            LET r == Replay(new(self[1].text), C3_Permuted(p))
            IN  /\ r.tag = "Ok"
                /\ r.val[1].foreground = self[1].foreground
                /\ r.val[1].background = self[1].background
                /\ r.val[1].underline = self[1].underline
                /\ Range(r.val[1].styles) = Range(self[1].styles)

\* C3 as amended: the set of attributes is the same for every order of the
\* calls; the foreground (the background, the underline) is the same when
\* the two orders end with the same foreground-setting (background-setting,
\* underline-setting) call.
C3_OrderIndependentAmended ==
    self # None =>
        \A p \in Permutations(DOMAIN calls) :
            LET q == C3_Permuted(p)
                r == Replay(new(self[1].text), q)
            IN  /\ r.tag = "Ok"
                /\ Range(r.val[1].styles) = Range(self[1].styles)
                /\ C3_LastSetter(q, C3_FgOps) = C3_LastSetter(calls, C3_FgOps)
                       => r.val[1].foreground = self[1].foreground
                /\ C3_LastSetter(q, C3_BgOps) = C3_LastSetter(calls, C3_BgOps)
                       => r.val[1].background = self[1].background
                /\ C3_LastSetter(q, C3_UlOps) = C3_LastSetter(calls, C3_UlOps)
                       => r.val[1].underline = self[1].underline

C3_Witness ==
    /\ self # None
    /\ Len(calls) = 3
    /\ \E p \in Permutations(DOMAIN calls) :
           LET q == C3_Permuted(p)
               r == Replay(new(self[1].text), q)
           IN  /\ q # calls
               /\ C3_LastSetter(calls, C3_FgOps) # None
               /\ C3_LastSetter(q, C3_FgOps) = C3_LastSetter(calls, C3_FgOps)
               /\ Cardinality({k \in DOMAIN calls : calls[k].op \in C3_FgOps}) = 2
               /\ r.tag = "Ok"
               /\ r.val[1].styles = self[1].styles

C4_IsHexDigit(c) ==
    c \in {"0", "1", "2", "3", "4", "5", "6", "7", "8", "9",
           "a", "b", "c", "d", "e", "f", "A", "B", "C", "D", "E", "F"}

\* Six hexadecimal digits, optionally preceded by one '#'.
C4_WellFormed(h) ==
    LET d == IF h # <<>> /\ Head(h) = "#" THEN Tail(h) ELSE h
    IN  Len(d) = 6 /\ \A k \in DOMAIN d : C4_IsHexDigit(d[k])

C4_DigitValue(c) ==
    CASE c \in {"a", "A"} -> 10 [] c \in {"b", "B"} -> 11 [] c \in {"c", "C"} -> 12
      [] c \in {"d", "D"} -> 13 [] c \in {"e", "E"} -> 14 [] c \in {"f", "F"} -> 15
      [] OTHER -> CHOOSE n \in 0..9 : DigitChar[n + 1] = c

C4_Rgb(h) ==
    LET d == IF Head(h) = "#" THEN Tail(h) ELSE h
        pair(k) == 16 * C4_DigitValue(d[k]) + C4_DigitValue(d[k + 1])
    IN  <<pair(1), pair(3), pair(5)>>

\* C4: hex_color(h) and bg_hex_color(h) succeed exactly when h is six
\* hexadecimal digits optionally preceded by one '#', and then set the
\* colour of the three 2-digit groups as color / bg_color would; for every
\* other input they fail and produce no configuration.  (That the failure
\* is the error value and never a panic is C5_HexNeverPanics.)
C4_HexColorContract ==
    last.op \in {"hex_color", "bg_hex_color"} =>
        IF C4_WellFormed(last.arg)
        THEN /\ res = "Ok"
             /\ self # None
             /\ last.op = "hex_color" => self[1].foreground = Some(C4_Rgb(last.arg))
             /\ last.op = "bg_hex_color" => self[1].background = Some(C4_Rgb(last.arg))
        ELSE res # "Ok" /\ self = None

\* C5: for every input string, multi-byte characters included, hex_color
\* and bg_hex_color end with a configuration or an error value and never
\* panic.
C5_HexNeverPanics ==
    last.op \in {"hex_color", "bg_hex_color"} => res \in {"Ok", "Err"}

(***************************************************************************)
(* Claims about the effects.                                               *)
(***************************************************************************)
C6_Channel(start, end, i, len) ==
    LET n == IF len - 1 > 1 THEN len - 1 ELSE 1
    IN  (start * n + (end - start) * i) \div n

C6_Colour(sc, ec, i, len) ==
    <<C6_Channel(sc[1], ec[1], i, len), C6_Channel(sc[2], ec[2], i, len),
      C6_Channel(sc[3], ec[3], i, len)>>

C6_FgCode(c) == C1_Csi(<<"3", "8", ";", "2", ";">> \o C1_Rgb(c))

RECURSIVE C6_Segments(_, _, _, _)
C6_Segments(text, sc, ec, i) ==
    IF i = Len(text) THEN <<>>
    ELSE C6_FgCode(C6_Colour(sc, ec, i, Len(text))) \o <<text[i + 1]>>
             \o C6_Segments(text, sc, ec, i + 1)

\* C6: gradient returns the empty string for the empty text; for a text of
\* L >= 1 characters it returns, for i = 0..L-1 in order, ESC[38;2;R;G;Bm and
\* character i, each channel being start + (end - start) * i / max(L-1, 1)
\* truncated toward zero, and one ESC[0m at the very end.
C6_GradientFormula ==
    grad.pc = "done" =>
        grad.result =
            IF grad.text = <<>> THEN <<>>
            ELSE C6_Segments(grad.text, grad.start_color, grad.end_color, 0)
                     \o <<"ESC", "[", "0", "m">>

C10_Between(x, a, b) == (a <= x /\ x <= b) \/ (b <= x /\ x <= a)

C10_EndsWith(str, suffix) ==
    /\ Len(str) >= Len(suffix)
    /\ SubSeq(str, Len(str) - Len(suffix) + 1, Len(str)) = suffix

C7_Palette ==
    [red |-> <<255, 0, 0>>, orange |-> <<255, 165, 0>>, yellow |-> <<255, 255, 0>>,
     green |-> <<0, 255, 0>>, blue |-> <<0, 0, 255>>, indigo |-> <<75, 0, 130>>,
     violet |-> <<238, 130, 238>>]

C7_Order == <<"red", "orange", "yellow", "green", "blue", "indigo", "violet">>

C7_Index(i, len) ==
    IF (i * 7) \div len < 6 THEN (i * 7) \div len ELSE 6

RECURSIVE C7_Segments(_, _)
C7_Segments(text, i) ==
    IF i = Len(text) THEN <<>>
    ELSE C6_FgCode(C7_Palette[C7_Order[C7_Index(i, Len(text)) + 1]])
             \o <<text[i + 1]>> \o C7_Segments(text, i + 1)

C7_Resets(str) ==
    Cardinality({k \in 1..Len(str) - 3 :
                    SubSeq(str, k, k + 3) = <<"ESC", "[", "0", "m">>})

\* C7: polychrome returns the empty string for the empty text and never
\* computes i*7/L for it; in a text of L >= 1 characters, character i gets
\* the colour at index min(floor(i*7/L), 6) of the palette red, orange,
\* yellow, green, blue, indigo, violet, an index within 0..6, and the
\* output ends with exactly one ESC[0m.
C7_PolychromePalette ==
    /\ (poly.pc = "done" /\ poly.text = <<>>) =>
           poly.result = <<>> /\ poly.color_index = None
    /\ poly.color_index # None =>
           LET k == poly.i - 1
               used == IF poly.color_index[1] < 6 THEN poly.color_index[1] ELSE 6
           IN  /\ used = C7_Index(k, Len(poly.text))
               /\ used \in 0..6
    /\ (poly.pc = "done" /\ poly.text # <<>>) =>
           /\ poly.result = C7_Segments(poly.text, 0) \o <<"ESC", "[", "0", "m">>
           /\ C7_Resets(poly.result) = 1

C7_Witness ==
    /\ poly.pc = "done"
    /\ Len(poly.text) >= 8
    /\ poly.color_index = Some(6)

(***************************************************************************)
(* Claims about the progress bar and the colour probe.                     *)
(***************************************************************************)
C8_AtMostZero(p) == p.kind # "nan" /\ p.num <= 0
C8_AtLeastOne(p) == p.kind # "nan" /\ (p.kind = "inf" \/ p.num >= p.den) /\ p.num > 0

\* floor(width * progress) of the progress clamped to [0, 1].
C8_Filled(width, p) ==
    IF C8_AtMostZero(p) THEN 0
    ELSE IF C8_AtLeastOne(p) THEN width
    ELSE (width * p.num) \div p.den

C8_Glyphs(n, g) == [k \in 1..n |-> g]

C8_Wrapped(b, body) ==
    IF b.color = None THEN body
    ELSE C6_FgCode(b.color[1]) \o body \o <<"ESC", "[", "0", "m">>

C9_SupportsColorEnv ==
    last.op = "supports_color" =>
        supports = Some(
            IF env["NO_COLOR"] # None THEN FALSE
            ELSE IF env["FORCE_COLOR"] # None THEN TRUE
            ELSE /\ env["TERM"] # None
                 /\ env["TERM"][1] # Unicode(<<>>)
                 /\ env["TERM"][1] # Unicode(<<"d", "u", "m", "b">>))

====
